---- MODULE Spec2Model ----
(***************************************************************************)
(* Model of era5cli/cli.py: the validation helpers (zpadlist, zpad_days,   *)
(* zpad_months, format_hours, format_split, str_seq, seq_to_list) and the  *)
(* command surface main().                                                 *)
(*                                                                         *)
(* Python strings are sequences of one-character strings, so that int(),   *)
(* str.zfill(), str.lower() and str.split('/') are computed character by   *)
(* character.  Python values are tagged records.                           *)
(***************************************************************************)
EXTENDS Integers, Sequences, FiniteSets, TLC

(***************************************************************************)
(* Bounds of the model.                                                    *)
(***************************************************************************)
\* integers n with -MaxN <= n <= MaxN are rendered by str(n) and normalised
MaxN == 40
\* raw tokens handed to the bounded normalisers have at most this length
MaxTokLen == 3
\* raw tokens handed to str_seq have at most this length
MaxSeqLen == 5
\* number of command-line arguments after the command name
MaxArgs == 3

(***************************************************************************)
(* Python values.                                                          *)
(***************************************************************************)
NoneV == [t |-> "None"]
StrV(s) == [t |-> "str", s |-> s]
ListV(l) == [t |-> "list", l |-> l]
BoolV(b) == [t |-> "bool", b |-> b]

IsStr(v) == v.t = "str"

(***************************************************************************)
(* Characters and the string methods the code uses.                        *)
(***************************************************************************)
DigitChars == <<"0", "1", "2", "3", "4", "5", "6", "7", "8", "9">>
Digits == {DigitChars[i] : i \in 1..10}
DigitVal(c) == (CHOOSE i \in 1..10 : DigitChars[i] = c) - 1

\* characters str.strip() and int() treat as white space
WhiteSpace == {" "}

LowerCase == <<"a", "b", "e", "i", "k", "l", "r", "s", "v", "w", "y">>
UpperCase == <<"A", "B", "E", "I", "K", "L", "R", "S", "V", "W", "Y">>
UpperChars == {UpperCase[i] : i \in 1..Len(UpperCase)}

\* str.lower() on one character
LowerChar(c) ==
  IF c \in UpperChars
    THEN LowerCase[CHOOSE i \in 1..Len(UpperCase) : UpperCase[i] = c]
    ELSE c
UpperChar(c) ==
  IF \E i \in 1..Len(LowerCase) : LowerCase[i] = c
    THEN UpperCase[CHOOSE i \in 1..Len(LowerCase) : LowerCase[i] = c]
    ELSE c

\* str.lower()
Lower(s) == [i \in 1..Len(s) |-> LowerChar(s[i])]

Zeros(k) == [i \in 1..k |-> "0"]

\* str.zfill(width): pad on the left with '0', after a leading sign
ZFill(s, width) ==
  IF Len(s) >= width THEN s
  ELSE IF Len(s) > 0 /\ s[1] \in {"+", "-"}
    THEN <<s[1]>> \o Zeros(width - Len(s)) \o Tail(s)
    ELSE Zeros(width - Len(s)) \o s

\* str.strip(): drop leading and trailing white space
RECURSIVE LStrip(_)
LStrip(s) ==
  IF s # <<>> /\ s[1] \in WhiteSpace THEN LStrip(Tail(s)) ELSE s
RECURSIVE RStrip(_)
RStrip(s) ==
  IF s # <<>> /\ s[Len(s)] \in WhiteSpace
    THEN RStrip(SubSeq(s, 1, Len(s) - 1)) ELSE s
Strip(s) == RStrip(LStrip(s))

\* str.split(sep): the pieces between the occurrences of sep
RECURSIVE SplitOn(_, _, _)
SplitOn(s, sep, cur) ==
  IF s = <<>> THEN <<cur>>
  ELSE IF s[1] = sep THEN <<cur>> \o SplitOn(Tail(s), sep, <<>>)
  ELSE SplitOn(Tail(s), sep, Append(cur, s[1]))
Split(s, sep) == SplitOn(s, sep, <<>>)

\* the digits of an int() literal: digits, single '_' only between digits
IntBody(b) ==
  /\ b # <<>>
  /\ \A i \in 1..Len(b) : b[i] \in Digits \cup {"_"}
  /\ b[1] # "_" /\ b[Len(b)] # "_"
  /\ \A i \in 1..(Len(b) - 1) : ~(b[i] = "_" /\ b[i + 1] = "_")

Unsigned(s) == IF s # <<>> /\ s[1] \in {"+", "-"} THEN Tail(s) ELSE s

\* int(s) does not raise ValueError
IntOk(s) == IntBody(Unsigned(Strip(s)))

RECURSIVE DigitsVal(_, _)
DigitsVal(b, acc) ==
  IF b = <<>> THEN acc
  ELSE IF b[1] = "_" THEN DigitsVal(Tail(b), acc)
  ELSE DigitsVal(Tail(b), 10 * acc + DigitVal(b[1]))

\* int(s), for a string int() accepts
IntVal(s) ==
  LET t == Strip(s)
      m == DigitsVal(Unsigned(t), 0)
  IN IF t[1] = "-" THEN 0 - m ELSE m

\* str(n) for an int n
RECURSIVE NatStr(_)
NatStr(n) ==
  IF n < 10 THEN <<DigitChars[n + 1]>>
  ELSE Append(NatStr(n \div 10), DigitChars[(n % 10) + 1])
Str(n) == IF n < 0 THEN <<"-">> \o NatStr(0 - n) ELSE NatStr(n)

\* list(range(a, b))
Range(a, b) == [i \in 1..(IF b > a THEN b - a ELSE 0) |-> a + i - 1]

(***************************************************************************)
(* Outcome of one call of a helper: it returns a value, or raises.         *)
(* printed is what print() wrote before: <<>>, or <<field, argument>> for  *)
(* "Invalid {field} argument: {argument}".                                 *)
(***************************************************************************)
Return(v) == [kind |-> "return", val |-> v, printed |-> <<>>]
Raise(exc) == [kind |-> exc, val |-> NoneV, printed |-> <<>>]
\* print("Invalid {} argument: {}".format(type, intstr)); sys.exit()
PrintAndExit(type, v) ==
  [kind |-> "SystemExit", val |-> NoneV, printed |-> <<type, v>>]

\* the bound test with the lower bound excluded
InBoundStrict(n, minval, maxval) == n > minval /\ n <= maxval

\* the test of the if statement of zpadlist and format_hours
InBound(n, minval, maxval) == n >= minval /\ n <= maxval

\* the width handed to zfill
PadWidth == 2

zpadlist(intstr, type, minval, maxval) ==
  IF ~IsStr(intstr)
    \* int(None) raises TypeError; the handler's first statement evaluates
    \* the undefined name "reanalysis"
    THEN Raise("NameError")
  ELSE IF ~IntOk(intstr.s)
    \* int() raises ValueError, which "except TypeError" does not catch
    THEN Raise("ValueError")
  ELSE IF InBound(IntVal(intstr.s), minval, maxval)
    THEN Return(StrV(ZFill(intstr.s, PadWidth)))
  ELSE PrintAndExit(type, intstr)

zpad_days(intstr) == zpadlist(intstr, "days", 1, 31)

zpad_months(intstr) == zpadlist(intstr, "months", 1, 12)

format_hours(intstr) ==
  IF ~IsStr(intstr)
    THEN PrintAndExit("hours", intstr)
  ELSE IF ~IntOk(intstr.s)
    THEN Raise("ValueError")
  ELSE IF InBound(IntVal(intstr.s), 0, 23)
    THEN Return(StrV(ZFill(intstr.s, PadWidth) \o <<":", "0", "0">>))
  ELSE PrintAndExit("hours", intstr)

SplitVocabulary ==
  { <<"v", "a", "r", "i", "a", "b", "l", "e">>, <<"y", "e", "a", "r">> }

\* "if splitstr:" is false for None and for the empty string
Truthy(v) == IsStr(v) /\ v.s # <<>>

format_split(splitstr) ==
  IF Truthy(splitstr)
    THEN IF Lower(splitstr.s) \notin SplitVocabulary
           THEN PrintAndExit("split", splitstr)
           ELSE Return(StrV(Lower(splitstr.s)))
    ELSE Return(NoneV)

\* seq_to_list without the "+ 1" on the upper end of the range
seq_to_list_exclusive(sequence) ==
  LET parts == Split(sequence.s, "/")
  IN IF Len(parts) # 2
       THEN Raise("ValueError")
     ELSE IF ~IntOk(parts[1]) \/ ~IntOk(parts[2])
       THEN Raise("ValueError")
     ELSE Return(ListV(Range(IntVal(parts[1]), IntVal(parts[2]))))

seq_to_list(sequence) ==
  LET parts == Split(sequence.s, "/")
  IN IF Len(parts) # 2
       \* unpacking into (first, last) raises ValueError
       THEN Raise("ValueError")
     ELSE IF ~IntOk(parts[1]) \/ ~IntOk(parts[2])
       THEN Raise("ValueError")
     ELSE Return(ListV(Range(IntVal(parts[1]), IntVal(parts[2]) + 1)))

str_seq(intseq) ==
  IF IntOk(intseq.s)
    THEN Return(ListV(<<IntVal(intseq.s)>>))
    ELSE seq_to_list(intseq)

(***************************************************************************)
(* How the process ends when a helper's exception is not handled by the    *)
(* caller: sys.exit() carries no status, so the process ends with 0;       *)
(* argparse turns a ValueError of a type= function into exit status 2; any *)
(* other exception ends the interpreter with status 1.  -1: no exit.       *)
(***************************************************************************)
ExitStatus(o) ==
  CASE o.kind = "return" -> -1
    [] o.kind = "SystemExit" -> 0
    [] o.kind = "ValueError" -> 2
    [] OTHER -> 1

(***************************************************************************)
(* The command surface: the parsers main() builds.                         *)
(***************************************************************************)
Commands == {"fetchhourly", "fetchmonthly", "info"}

T_2m_temperature ==
  <<"2", "m", "_", "t", "e", "m", "p", "e", "r", "a", "t", "u", "r", "e">>
T_pressure_levels ==
  <<"p", "r", "e", "s", "s", "u", "r", "e", "_", "l", "e", "v", "e", "l", "s">>
T_variables == <<"v", "a", "r", "i", "a", "b", "l", "e", "s">>
T_foo == <<"f", "o", "o">>
T_reanalysis == <<"r", "e", "a", "n", "a", "l", "y", "s", "i", "s">>
T_ensemble_mean ==
  <<"e", "n", "s", "e", "m", "b", "l", "e", "_", "m", "e", "a", "n">>
T_ensemble_members ==
  <<"e", "n", "s", "e", "m", "b", "l", "e", "_", "m", "e", "m", "b", "e", "r", "s">>
T_ensemble_spread ==
  <<"e", "n", "s", "e", "m", "b", "l", "e", "_", "s", "p", "r", "e", "a", "d">>
T_netcdf == <<"n", "e", "t", "c", "d", "f">>
T_grib == <<"g", "r", "i", "b">>
T_era5 == <<"e", "r", "a", "5">>
T_weekly == <<"w", "e", "e", "k", "l", "y">>
T_2015_2016 == <<"2", "0", "1", "5", "/", "2", "0", "1", "6">>

\* the arguments added to "common"
CommonDests ==
  {"variables", "years", "months", "days", "hours", "levels",
   "outputprefix", "format", "split", "threads"}

\* the arguments "common" holds when fetchhourly and fetchmonthly are
\* created with parents=[common]: add_parser copies the parent's actions at
\* that moment, and every common.add_argument call comes later
InheritedDests == {}

OwnDests(command) ==
  CASE command = "fetchhourly" -> {"product"}
    [] command = "fetchmonthly" -> {"ensemble", "synaptic"}
    [] command = "info" -> {"type"}

\* the arguments the sub-parser of a command knows
Registered(command) ==
  IF command = "info" THEN OwnDests(command)
  ELSE InheritedDests \cup OwnDests(command)

PositionalDests == {"variables", "type"}

\* required=True, and the positionals
RequiredDests ==
  {"variables", "years", "product", "ensemble", "synaptic", "type"}

\* the keys of era5cli.inputref.refdict
RefDictKeys == {T_pressure_levels, T_variables}

DefaultMonths == ListV([m \in 1..12 |-> ZFill(Str(m), 2)])
DefaultDays == ListV([d \in 1..31 |-> ZFill(Str(d), 2)])
DefaultHours == ListV([h \in 1..24 |-> ZFill(Str(h - 1), 2) \o <<":", "0", "0">>])

\* default= of an argument
Default(dest) ==
  CASE dest = "months" -> DefaultMonths
    [] dest = "days" -> DefaultDays
    [] dest = "hours" -> DefaultHours
    [] dest = "outputprefix" -> StrV(T_era5)
    [] dest = "format" -> StrV(T_netcdf)
    [] dest = "split" -> BoolV(TRUE)
    [] OTHER -> NoneV

\* wrap the value of an argument with nargs="+" (one value per flag here)
OneOrMore(o) == IF o.kind = "return" THEN Return(ListV(<<o.val.s>>)) ELSE o

\* int as type= of an argument
IntType(tok) ==
  IF IntOk(tok.s) THEN Return([t |-> "int", n |-> IntVal(tok.s)])
  ELSE Raise("ValueError")

\* type= of an argument, applied to a raw token
Convert(dest, tok) ==
  CASE dest \in {"years", "product"} -> str_seq(tok)
    [] dest \in {"ensemble", "synaptic", "split"} -> Return(BoolV(tok.s # <<>>))
    [] dest = "months" -> OneOrMore(zpad_months(tok))
    [] dest = "days" -> OneOrMore(zpad_days(tok))
    [] dest = "hours" -> OneOrMore(format_hours(tok))
    [] dest = "variables" -> OneOrMore(Return(tok))
    [] dest \in {"levels", "threads"} -> IntType(tok)
    [] OTHER -> Return(tok)

\* choices= of an argument, checked on the converted value
InChoices(dest, v) ==
  CASE dest = "product" ->
         /\ IsStr(v)
         /\ v.s \in {T_ensemble_mean, T_ensemble_members,
                     T_ensemble_spread, T_reanalysis}
    [] dest = "format" -> IsStr(v) /\ v.s \in {T_netcdf, T_grib}
    [] dest = "threads" -> v.t = "int" /\ v.n \in 1..6
    [] dest = "type" -> IsStr(v) /\ v.s \in RefDictKeys
    [] OTHER -> TRUE

\* Namespace with the defaults of the arguments of the sub-parser
InitialNamespace(command) ==
  [d \in Registered(command) \cup {"command"} |->
     IF d = "command" THEN command ELSE Default(d)]

Arg(opt, tok) == [opt |-> opt, tok |-> StrV(tok)]

\* the next positional of the sub-parser that is still free, "" if none
FreePositional(command, seen) ==
  LET free == (Registered(command) \cap PositionalDests) \ seen
  IN IF free = {} THEN "" ELSE CHOOSE d \in free : TRUE

\* the flag of the argument is not one of the sub-parser
UnknownFlag(command, a) ==
  a.opt # "positional" /\ a.opt \notin Registered(command) \ PositionalDests

\* where the value of a command-line argument goes: to its flag, or, for a
\* positional and for what follows an unknown flag, to the next free
\* positional of the sub-parser, or nowhere ("")
Target(command, a, seen) ==
  IF a.opt = "positional" \/ UnknownFlag(command, a)
    THEN FreePositional(command, seen)
    ELSE a.opt

ParseResult(ns, error, o) ==
  [ns |-> ns, error |-> error, printed |-> o.printed, raised |-> o.kind]

\* the sub-parser consumes the arguments from left to right; the first
\* failing type= or choices= check ends the parse; what it does not know
\* is left over and reported once it is done
RECURSIVE Consume(_, _, _, _, _)
Consume(command, rest, ns, seen, extras) ==
  IF rest = <<>>
    THEN IF (Registered(command) \cap RequiredDests) \ seen # {}
           THEN ParseResult(ns, "required", Raise("ArgumentError"))
         ELSE IF extras
           THEN ParseResult(ns, "unrecognized", Raise("ArgumentError"))
         ELSE ParseResult(ns, "none", Return(NoneV))
  ELSE LET a == Head(rest)
           d == Target(command, a, seen)
           o == Convert(d, a.tok)
           left == extras \/ UnknownFlag(command, a)
       IN IF d = ""
            THEN Consume(command, Tail(rest), ns, seen, TRUE)
          ELSE IF o.kind # "return"
            THEN ParseResult(ns, "type", o)
          ELSE IF ~InChoices(d, o.val)
            THEN ParseResult(ns, "choice", Raise("ArgumentError"))
          ELSE Consume(command, Tail(rest), [ns EXCEPT ![d] = o.val],
                       seen \cup {d}, left)

\* parser.parse_args()
ParseArgs(command, argv) ==
  Consume(command, argv, InitialNamespace(command), {}, FALSE)

\* a parse that lets unrecognised arguments pass, as parse_known_args() does
AbortsKnownArgs(r) == r.error \notin {"none", "unrecognized"}

\* parse_args() does not return: ArgumentParser.error() exits, and
\* SystemExit raised inside a type= function propagates
Aborts(r) == r.error # "none"

\* exit status of a parse that does not return
ParseStatus(r) == IF r.raised = "SystemExit" THEN 0 ELSE 2

\* the attributes the except branch of main() reads
FetchAttrs ==
  {"variables", "months", "days", "hours", "split", "format", "threads",
   "levels", "years", "outputprefix"}

\* Fetch(years, months, days, hours, variables, outputformat, outputprefix,
\*       split, threads)
FetchCall(n) ==
  [years |-> n["years"], months |-> n["months"], days |-> n["days"],
   hours |-> n["hours"], variables |-> n["variables"],
   outputformat |-> n["format"], outputprefix |-> n["outputprefix"],
   split |-> n["split"], threads |-> n["threads"]]

\* what Info(infotype) and era5info.list() can do, as main() sees it: return,
\* raise the AttributeError the except clause catches, or raise anything else
InfoBehaviours == {"returns", "AttributeError", "Exception"}

(***************************************************************************)
(* Inputs.                                                                 *)
(***************************************************************************)
SeqsUpTo(A, n) == UNION {[1..k -> A] : k \in 0..n}

\* every way of writing a word in upper and lower case
CaseVariants(w) ==
  {[i \in 1..Len(w) |-> IF i \in S THEN UpperChar(w[i]) ELSE w[i]] :
     S \in SUBSET (1..Len(w))}

FieldAlphabet ==
  {"0", "1", "2", "3", "5", "7", "9", "+", "-", " ", "_", "a"}

\* tokens for zpad_days, zpad_months and format_hours
FieldTokens ==
  {NoneV} \cup {StrV(s) : s \in SeqsUpTo(FieldAlphabet, MaxTokLen)}
          \cup {StrV(Str(n)) : n \in (0 - MaxN)..MaxN}

SeqAlphabet == {"1", "3", "/", "a", " ", "-"}

\* tokens for str_seq
SeqTokens ==
  {StrV(s) : s \in SeqsUpTo(SeqAlphabet, MaxSeqLen)}
    \cup {StrV(Str(a) \o <<"/">> \o Str(b)) : a, b \in 2015..2018}

\* tokens for format_split
SplitTokens ==
  {NoneV} \cup {StrV(s) : s \in UNION {CaseVariants(w) :
                   w \in SplitVocabulary \cup {<<>>, T_weekly, <<"y">>,
                                              <<"y", "e", "a", "r", "s">>}}}

\* the command-line arguments invocations are built from
ArgPool ==
  {Arg("positional", T_2m_temperature), Arg("positional", T_pressure_levels),
   Arg("positional", T_foo), Arg("years", T_2015_2016),
   Arg("product", T_reanalysis), Arg("product", <<"5">>),
   Arg("hours", <<"2", "5">>), Arg("days", <<"3", "2">>),
   Arg("ensemble", <<"1">>), Arg("synaptic", <<"1">>),
   Arg("synaptic", <<>>), Arg("split", T_weekly)}

\* fetchhourly 2m_temperature --years 2015/2016 --product reanalysis
HourlyExample ==
  <<Arg("positional", T_2m_temperature), Arg("years", T_2015_2016),
    Arg("product", T_reanalysis)>>

\* the same with --hours 25
HoursExample == Append(HourlyExample, Arg("hours", <<"2", "5">>))

Argvs == SeqsUpTo(ArgPool, MaxArgs) \cup {HourlyExample, HoursExample}

(***************************************************************************)
(* State.                                                                  *)
(***************************************************************************)
VARIABLES
  pc,          \* "idle", "called" (a helper was called), "parsed",
               \* "except" (in the except branch of main), "done", "exited"
  fn,          \* the helper called
  arg,         \* its argument
  outcome,     \* its outcome
  command,     \* the command of the invocation of main()
  args,        \* its command-line arguments
  ns,          \* the Namespace parse_args() returned
  parseError,  \* why parse_args() failed, "none" if it did not
  status,      \* exit status of the process, -1 while there is none
  infoCalls,   \* the calls of the Info Service, in order
  fetchCalls   \* the calls of the Fetch Engine, in order

vars ==
  <<pc, fn, arg, outcome, command, args, ns, parseError, status,
    infoCalls, fetchCalls>>

mainVars == <<command, args, ns, parseError, infoCalls, fetchCalls>>

Init ==
  /\ pc = "idle"
  /\ fn = ""
  /\ arg = NoneV
  /\ outcome = Return(NoneV)
  /\ command = ""
  /\ args = <<>>
  /\ ns = <<>>
  /\ parseError = "none"
  /\ status = -1
  /\ infoCalls = <<>>
  /\ fetchCalls = <<>>

\* one call of a helper, with the exit status the process gets from it
Call(name, tok, o) ==
  /\ pc' = "called"
  /\ fn' = name
  /\ arg' = tok
  /\ outcome' = o
  /\ status' = ExitStatus(o)
  /\ UNCHANGED mainVars

CallZpadDays ==
  /\ pc = "idle"
  /\ \E tok \in FieldTokens : Call("zpad_days", tok, zpad_days(tok))

CallZpadMonths ==
  /\ pc = "idle"
  /\ \E tok \in FieldTokens : Call("zpad_months", tok, zpad_months(tok))

CallFormatHours ==
  /\ pc = "idle"
  /\ \E tok \in FieldTokens : Call("format_hours", tok, format_hours(tok))

CallFormatSplit ==
  /\ pc = "idle"
  /\ \E tok \in SplitTokens : Call("format_split", tok, format_split(tok))

CallStrSeq ==
  /\ pc = "idle"
  /\ \E tok \in SeqTokens : Call("str_seq", tok, str_seq(tok))

\* main() up to and including args = parser.parse_args()
Parse ==
  /\ pc = "idle"
  /\ \E c \in Commands, argv \in Argvs :
       LET r == ParseArgs(c, argv)
       IN /\ command' = c
          /\ args' = argv
          /\ ns' = r.ns
          /\ parseError' = r.error
          /\ pc' = IF Aborts(r) THEN "exited" ELSE "parsed"
          /\ status' = IF Aborts(r) THEN ParseStatus(r) ELSE -1
  /\ UNCHANGED <<fn, arg, outcome, infoCalls, fetchCalls>>

\* the try block: args.type, Info(infotype), era5info.list()
TryInfo ==
  /\ pc = "parsed"
  /\ IF "type" \in DOMAIN ns
       THEN \E b \in InfoBehaviours :
              /\ infoCalls' = Append(infoCalls, ns["type"])
              /\ pc' = IF b = "AttributeError" THEN "except" ELSE "done"
              /\ status' = CASE b = "returns" -> 0
                             [] b = "AttributeError" -> -1
                             [] OTHER -> 1
       ELSE /\ pc' = "except"
            /\ UNCHANGED <<infoCalls, status>>
  /\ UNCHANGED <<fn, arg, outcome, command, args, ns, parseError, fetchCalls>>

\* the except AttributeError block: read the attributes, Fetch(...).fetch()
FetchBranch ==
  /\ pc = "except"
  /\ pc' = "done"
  /\ IF FetchAttrs \subseteq DOMAIN ns
       THEN /\ fetchCalls' = Append(fetchCalls, FetchCall(ns))
            /\ status' = 0
       \* args.variables raises AttributeError, which nothing catches
       ELSE /\ status' = 1
            /\ UNCHANGED fetchCalls
  /\ UNCHANGED <<fn, arg, outcome, command, args, ns, parseError, infoCalls>>

Next ==
  \/ CallZpadDays
  \/ CallZpadMonths
  \/ CallFormatHours
  \/ CallFormatSplit
  \/ CallStrSeq
  \/ Parse
  \/ TryInfo
  \/ FetchBranch

Spec == Init /\ [][Next]_vars

(***************************************************************************)
(* Properties.                                                             *)
(***************************************************************************)
Terminated == pc \in {"done", "exited"}
FetchCommands == {"fetchhourly", "fetchmonthly"}
Normalizers == {"zpad_days", "zpad_months", "format_hours"}
Called(names) == pc = "called" /\ fn \in names

\* the field name and the inclusive bound of a normalizer
FieldOf(name) ==
  CASE name = "zpad_days" -> [field |-> "days", lo |-> 1, hi |-> 31]
    [] name = "zpad_months" -> [field |-> "months", lo |-> 1, hi |-> 12]
    [] name = "format_hours" -> [field |-> "hours", lo |-> 0, hi |-> 23]

\* a number between 0 and 99 written with two digits
TwoDigits(n) == <<DigitChars[(n \div 10) + 1], DigitChars[(n % 10) + 1]>>
Minutes == <<":", "0", "0">>

\* C1: fetchhourly 2m_temperature --years 2015/2016 --product reanalysis
\* ends with exactly one call of the Fetch Engine, which carries
\* years=[2015,2016], the 12 months, the 31 days, the 24 hours,
\* format "netcdf", split True and threads None.
C1_HourlyExampleDispatched ==
  (command = "fetchhourly" /\ args = HourlyExample /\ Terminated) =>
     /\ Len(fetchCalls) = 1
     /\ fetchCalls[1].years = ListV(<<2015, 2016>>)
     /\ fetchCalls[1].months = ListV([m \in 1..12 |-> TwoDigits(m)])
     /\ fetchCalls[1].days = ListV([d \in 1..31 |-> TwoDigits(d)])
     /\ fetchCalls[1].hours = ListV([h \in 1..24 |-> TwoDigits(h - 1) \o Minutes])
     /\ fetchCalls[1].outputformat = StrV(T_netcdf)
     /\ fetchCalls[1].split = BoolV(TRUE)
     /\ fetchCalls[1].threads = NoneV

\* C2: an invocation of a fetch command in which a field fails validation
\* has terminated, and the Fetch Engine is not called in it.
C2_FailFast ==
  (command \in FetchCommands /\ parseError # "none") =>
     (pc = "exited" /\ fetchCalls = <<>>)

\* fetchhourly ... --hours 25 has failed and terminated
C2_Witness ==
  /\ command = "fetchhourly"
  /\ args = HoursExample
  /\ parseError # "none"
  /\ pc = "exited"
  /\ fetchCalls = <<>>

\* C3: a validation error of a day, month, hour or split token ends the
\* process with a message and a non-zero status; status 0 is only produced
\* by an invocation that succeeded.
C3_ErrorsExitNonZero ==
  /\ (Called(Normalizers \cup {"format_split"}) /\ IsStr(arg)
        /\ outcome.kind # "return") =>
       \* the helper printed, or argparse prints for the ValueError
       /\ outcome.printed # <<>> \/ outcome.kind = "ValueError"
       /\ status > 0
  /\ status = 0 => (pc = "done" /\ parseError = "none")

\* C4: an info invocation with a type of the reference vocabulary never
\* enters the fetch branch, and ends with exactly one call of the Info
\* Service, with that type, and no call of the Fetch Engine.
C4_InfoExclusive ==
  (command = "info" /\ pc \in {"parsed", "except", "done"}) =>
     /\ pc # "except"
     /\ pc = "done" =>
          /\ infoCalls = <<ns["type"]>>
          /\ fetchCalls = <<>>

\* C5: for every integer n, the normalizer applied to str(n) returns iff n
\* is within the inclusive bound of the field; it then returns str(n) padded
\* with '0' to two characters (followed by ":00" for hours); outside the
\* bound the call is fatal.
C5_BoundedNormalizer ==
  Called(Normalizers) =>
    \A n \in (0 - MaxN)..MaxN :
      arg = StrV(Str(n)) =>
        LET f == FieldOf(fn)
            inside == f.lo <= n /\ n <= f.hi
            padded == IF n < 10 THEN <<"0">> \o Str(n) ELSE Str(n)
        IN /\ (outcome.kind = "return") <=> inside
           /\ inside =>
                outcome.val = StrV(IF fn = "format_hours"
                                     THEN padded \o Minutes ELSE padded)
           /\ ~inside => outcome.kind = "SystemExit"

\* the lower bound 0 of the hours was accepted and rendered
C5_Witness ==
  /\ Called({"format_hours"})
  /\ arg = StrV(Str(0))
  /\ outcome = Return(StrV(<<"0", "0", ":", "0", "0">>))

\* C6: whenever a normalizer accepts a token, a day or month comes back two
\* characters wide and an hour comes back as "HH:00", HH from 00 to 23.
C6_OutputShape ==
  (Called(Normalizers) /\ IsStr(arg) /\ outcome.kind = "return") =>
     IF fn = "format_hours"
       THEN \E h \in 0..23 : outcome.val.s = TwoDigits(h) \o Minutes
       ELSE Len(outcome.val.s) = 2

\* C7: str_seq returns [n] for a token that int() parses as n, the
\* ascending list of the integers from first to last for a token
\* "first/last" of two integers and one slash, and is fatal otherwise.
C7_SequenceExpander ==
  Called({"str_seq"}) =>
    LET s == arg.s
        slashes == {i \in 1..Len(s) : s[i] = "/"}
    IN IF IntOk(s)
         THEN outcome = Return(ListV(<<IntVal(s)>>))
       ELSE IF Cardinality(slashes) = 1
         THEN LET k == CHOOSE i \in slashes : TRUE
                  a == SubSeq(s, 1, k - 1)
                  b == SubSeq(s, k + 1, Len(s))
              IN IF IntOk(a) /\ IntOk(b)
                   THEN /\ outcome.kind = "return"
                        /\ outcome.val.t = "list"
                        /\ LET l == outcome.val.l
                           IN /\ {l[i] : i \in 1..Len(l)} = IntVal(a)..IntVal(b)
                              /\ \A i \in 1..(Len(l) - 1) : l[i] < l[i + 1]
                   ELSE outcome.kind # "return"
       ELSE outcome.kind # "return"

\* "2015/2018" was expanded
C7_Witness ==
  /\ Called({"str_seq"})
  /\ arg = StrV(Str(2015) \o <<"/">> \o Str(2018))
  /\ outcome = Return(ListV(<<2015, 2016, 2017, 2018>>))

\* C8: every list str_seq returns is non-empty.
C8_NonEmpty ==
  (Called({"str_seq"}) /\ outcome.kind = "return") => outcome.val.l # <<>>

\* C9: format_split returns None exactly when the token is absent, the
\* lower-cased token when it is a member of {variable, year} whatever its
\* case, and is fatal for every other token that is present.
C9_FormatSplit ==
  Called({"format_split"}) =>
    /\ (outcome.kind = "return" /\ outcome.val = NoneV) <=> (arg = NoneV)
    /\ IsStr(arg) =>
         IF Lower(arg.s) \in SplitVocabulary
           THEN outcome = Return(StrV(Lower(arg.s)))
           ELSE outcome.kind = "SystemExit"

\* C10: a normalizer that rejects a token, numeric or not, prints the token
\* with the field name and terminates the invocation itself.
C10_SameFatalOutcome ==
  (Called(Normalizers) /\ IsStr(arg) /\ outcome.kind # "return") =>
     outcome = PrintAndExit(FieldOf(fn).field, arg)

====
